---------------------------- MODULE Spec2Model ----------------------------
(***************************************************************************)
(* grpredict: the streaming statistics (ExponentialMovingAverage,          *)
(* ExponentialMovingStd) and the culture growth filter (CultureGrowthEKF)  *)
(* of src/src/grpredict/__init__.py.                                       *)
(*                                                                         *)
(* Numbers.  The program computes in IEEE-754 binary floating point: every *)
(* +, -, *, /, sqrt is the exact result rounded to the nearest             *)
(* representable value, ties to even.  The model keeps exactly that        *)
(* arithmetic with a shorter significand: a number is [m, e], the value    *)
(* m * 2^e with 2^(Prec-1) <= |m| < 2^Prec, or zero.  The exponent is      *)
(* unbounded (the inputs of the model stay far from overflow, underflow,   *)
(* infinities and NaN).                                                    *)
(***************************************************************************)
EXTENDS Integers, Sequences, FiniteSets, TLC

\* Bits of the significand (53 in the program's binary64).
Prec == 8

\* Python's None.
Null == [none |-> TRUE]

----------------------------------------------------------------------------
(* Floating point *)

Zero == [m |-> 0, e |-> 0]

Neg(a) == [m |-> -a.m, e |-> a.e]

Abs(a) == IF a.m < 0 THEN Neg(a) ELSE a

RECURSIVE BitLen(_)
BitLen(n) == IF n = 0 THEN 0 ELSE 1 + BitLen(n \div 2)

\* A significand that rounding carried to 2^Prec is renormalised.
Carry(q, e) == IF q = 2^Prec THEN [m |-> 2^(Prec - 1), e |-> e + 1] ELSE [m |-> q, e |-> e]

\* (q + r / (2 half)) * 2^e to nearest, ties to even.
RoundPos(q, r, half, e) ==
    Carry(IF r > half \/ (r = half /\ q % 2 = 1) THEN q + 1 ELSE q, e)

\* a * 2^e for an integer a > 0 of L bits.
NormPos(a, L, e) ==
    IF L <= Prec
    THEN [m |-> a * 2^(Prec - L), e |-> e - (Prec - L)]
    ELSE RoundPos(a \div 2^(L - Prec), a % 2^(L - Prec), 2^(L - Prec - 1), e + L - Prec)

\* n * 2^e rounded to Prec bits, to nearest, ties to even.
Norm(n, e) ==
    IF n = 0 THEN Zero
    ELSE IF n < 0 THEN Neg(NormPos(-n, BitLen(-n), e))
    ELSE NormPos(n, BitLen(n), e)

\* A literal of the source, given by the leading bits of its binary64 value.
Lit(n, e) == Norm(n, e)

F(n) == Norm(n, 0)

One == Norm(1, 0)
Two == Norm(2, 0)

Add(a, b) ==
    IF a.m = 0 THEN b
    ELSE IF b.m = 0 THEN a
    ELSE IF a.e >= b.e
    THEN IF a.e - b.e > Prec + 2 THEN a ELSE Norm(a.m * 2^(a.e - b.e) + b.m, b.e)
    ELSE IF b.e - a.e > Prec + 2 THEN b ELSE Norm(b.m * 2^(b.e - a.e) + a.m, a.e)

Sub(a, b) == Add(a, Neg(b))

Mul(a, b) == Norm(a.m * b.m, a.e + b.e)

\* x / y for integers x, y > 0, times 2^e: the quotient and a sticky bit, rounded.
DivPos(x, y, e) == Norm(2 * (x \div y) + (IF x % y = 0 THEN 0 ELSE 1), e - 1)

\* a / b for b # 0, the quotient taken to Prec + 2 bits before rounding.
Div(a, b) ==
    IF a.m = 0 THEN Zero
    ELSE IF (a.m < 0) # (b.m < 0)
    THEN Neg(DivPos(Abs(a).m * 2^(Prec + 2), Abs(b).m, a.e - b.e - (Prec + 2)))
    ELSE DivPos(Abs(a).m * 2^(Prec + 2), Abs(b).m, a.e - b.e - (Prec + 2))

RECURSIVE ISqrtIn(_, _, _)
\* The largest r in lo..hi with r*r <= n (hi*hi > n, lo*lo <= n).
ISqrtIn(n, lo, hi) ==
    IF hi - lo <= 1 THEN lo
    ELSE IF ((lo + hi) \div 2) * ((lo + hi) \div 2) <= n
    THEN ISqrtIn(n, (lo + hi) \div 2, hi)
    ELSE ISqrtIn(n, lo, (lo + hi) \div 2)

\* sqrt(n) * 2^e from the integer root r of n and a sticky bit.
SqrtRound(n, r, e) == Norm(2 * r + (IF r * r = n THEN 0 ELSE 1), e - 1)

\* sqrt(m * 2^e), m > 0 and e even.
SqrtEven(m, e) == SqrtRound(m, ISqrtIn(m, 0, 2^(Prec + 3)), e \div 2)

\* sqrt(a) for a >= 0: the significand widened to 2 Prec + 4 or 5 bits.
SqrtF(a) ==
    IF a.m = 0 THEN Zero
    ELSE IF (a.e - (Prec + 4)) % 2 = 0
    THEN SqrtEven(a.m * 2^(Prec + 4), a.e - (Prec + 4))
    ELSE SqrtEven(a.m * 2^(Prec + 5), a.e - (Prec + 5))

Sign(a) == IF a.m > 0 THEN 1 ELSE IF a.m < 0 THEN -1 ELSE 0

Lt(a, b) == Sign(Sub(a, b)) < 0
Gt(a, b) == Lt(b, a)
Le(a, b) == ~Lt(b, a)
Ge(a, b) == ~Lt(a, b)

MaxF(a, b) == IF Gt(b, a) THEN b ELSE a

\* 2^k e^(r / 2^14) for an integer |r| <= 2^14 ln 2 / 2: the series of e^r to
\* degree 5, in Horner form with 14 fraction bits.
ExpSeries(r, k) ==
    Norm(2^14 + (r * (2^14 + (r * (2^14 + (r * (2^14 + (r * (2^14 + r \div 5))
                 \div (4 * 2^14))) \div (3 * 2^14))) \div (2 * 2^14))) \div 2^14,
         k - 14)

\* X = x * 2^14 as an integer; 11357 = ln 2 * 2^14.
ExpReduce(X) ==
    ExpSeries(X - ((2 * X + 11357) \div (2 * 11357)) * 11357,
              (2 * X + 11357) \div (2 * 11357))

\* exp(x), as libm computes it: x = k ln 2 + r with |r| <= ln 2 / 2, e^r in an
\* intermediate precision wider than the significand, then 2^k e^r rounded once.
\* ExpF(0) = 1 exactly.  |x| < 16.
ExpF(x) ==
    ExpReduce(IF x.e + 14 >= 0 THEN x.m * 2^(x.e + 14)
              ELSE IF -(x.e + 14) > Prec + 1 THEN 0
              ELSE (2 * x.m + 2^(-(x.e + 14))) \div (2 * 2^(-(x.e + 14))))

----------------------------------------------------------------------------
(* ExponentialMovingAverage: [alpha, value] *)

\* Python truthiness of an Optional[float]: None and 0.0 are false.
Truthy(x) == x # Null /\ x.m # 0

\* __init__: raises ValueError when alpha < 0 or alpha > 1.
EMA_valid(alpha) == ~(Lt(alpha, Zero) \/ Gt(alpha, One))

EMA_init(alpha) == [alpha |-> alpha, value |-> Null]

EMA_update(ema, new_value) ==
    IF ema.value = Null
    THEN [ema EXCEPT !.value = new_value]
    ELSE [ema EXCEPT !.value = Add(Mul(Sub(One, ema.alpha), new_value),
                                   Mul(ema.alpha, ema.value))]

EMA_clear(ema) == [ema EXCEPT !.value = Null]

----------------------------------------------------------------------------
(* ExponentialMovingStd: [alpha, ema, var, value] *)

\* The decay handed to the inner ExponentialMovingAverage: ema_alpha or self.alpha.
EMS_ema_alpha(alpha, ema_alpha) == IF Truthy(ema_alpha) THEN ema_alpha ELSE alpha

EMS_init(alpha, ema_alpha, initial_std_value, initial_mean_value) ==
    [alpha |-> alpha,
     var   |-> IF initial_std_value # Null
               THEN Mul(initial_std_value, initial_std_value) ELSE Null,
     value |-> initial_std_value,
     ema   |-> IF initial_mean_value # Null
               THEN EMA_update(EMA_init(EMS_ema_alpha(alpha, ema_alpha)), initial_mean_value)
               ELSE EMA_init(EMS_ema_alpha(alpha, ema_alpha))]

\* (x - mean_curr) * (x - mean_prev)
EMS_contribution(new_value, mean_prev, mean_curr) ==
    Mul(Sub(new_value, mean_curr), Sub(new_value, mean_prev))

\* The variance update() computes once the mean has a previous value.
EMS_next_var(ems, new_value) ==
    IF ems.var = Null
    THEN EMS_contribution(new_value, ems.ema.value, EMA_update(ems.ema, new_value).value)
    ELSE Add(Mul(Sub(One, ems.alpha),
                 EMS_contribution(new_value, ems.ema.value,
                                  EMA_update(ems.ema, new_value).value)),
             Mul(ems.alpha, ems.var))

\* The end of update(): the variance v is stored, then its square root, which
\* raises ValueError (math domain error) when v < 0.
EMS_store(ems, ema2, v) ==
    IF v.m < 0
    THEN [ems |-> [ems EXCEPT !.ema = ema2, !.var = v], ret |-> Null, raised |-> TRUE]
    ELSE [ems |-> [ems EXCEPT !.ema = ema2, !.var = v, !.value = SqrtF(v)],
          ret |-> SqrtF(v), raised |-> FALSE]

\* update(new_value): [ems: the object afterwards, ret: the value returned,
\* raised: whether it raised].
EMS_update(ems, new_value) ==
    IF ems.ema.value = Null
    THEN [ems |-> [ems EXCEPT !.ema = EMA_update(ems.ema, new_value)],
          ret |-> Null, raised |-> FALSE]
    ELSE EMS_store(ems, EMA_update(ems.ema, new_value), EMS_next_var(ems, new_value))

EMS_clear(ems) == [ems EXCEPT !.value = Null, !.var = Null, !.ema = EMA_clear(ems.ema)]

----------------------------------------------------------------------------
(* Vectors and matrices (numpy arrays): sequences of rows *)

\* <<Op(1)>> or <<Op(1), Op(2)>>: every dimension is 1 or 2.
Tab(n, Op(_)) == IF n = 1 THEN <<Op(1)>> ELSE <<Op(1), Op(2)>>

Col(B, j) == Tab(Len(B), LAMBDA k : B[k][j])

Dot(u, v) ==
    IF Len(u) = 1 THEN Mul(u[1], v[1]) ELSE Add(Mul(u[1], v[1]), Mul(u[2], v[2]))

MatMul(A, B) ==
    Tab(Len(A), LAMBDA i : Tab(Len(B[1]), LAMBDA j : Dot(A[i], Col(B, j))))

MatVec(A, v) == Tab(Len(A), LAMBDA i : Dot(A[i], v))

Transpose(A) == Tab(Len(A[1]), LAMBDA j : Tab(Len(A), LAMBDA i : A[i][j]))

MatAdd(A, B) ==
    Tab(Len(A), LAMBDA i : Tab(Len(A[1]), LAMBDA j : Add(A[i][j], B[i][j])))

MatSub(A, B) ==
    Tab(Len(A), LAMBDA i : Tab(Len(A[1]), LAMBDA j : Sub(A[i][j], B[i][j])))

VecAdd(u, v) == Tab(Len(u), LAMBDA i : Add(u[i], v[i]))

VecSub(u, v) == Tab(Len(u), LAMBDA i : Sub(u[i], v[i]))

Eye2 == <<<<One, Zero>>, <<Zero, One>>>>

\* Back substitution: the solution rows from the second one.
BackSubstitute(r1, b1, x2) ==
    [singular |-> FALSE,
     x |-> <<Tab(Len(b1), LAMBDA j : Div(Sub(b1[j], Mul(r1[2], x2[j])), r1[1])), x2>>]

\* Elimination of the second row with multiplier l, pivot u22 of the reduced row.
Eliminate(r1, b1, b2, l, u22) ==
    IF u22.m = 0 THEN [singular |-> TRUE, x |-> <<>>]
    ELSE BackSubstitute(r1, b1,
                        Tab(Len(b1), LAMBDA j : Div(Sub(b2[j], Mul(l, b1[j])), u22)))

\* The system with its pivot row r1 first.
SolvePivoted(r1, r2, b1, b2) ==
    IF r1[1].m = 0 THEN [singular |-> TRUE, x |-> <<>>]
    ELSE Eliminate(r1, b1, b2, Div(r2[1], r1[1]),
                   Sub(r2[2], Mul(Div(r2[1], r1[1]), r1[2])))

\* np.linalg.solve(A, B), A of order 1 or 2: LU with partial pivoting, forward
\* and back substitution per column of B.  [singular: LinAlgError, x: the solution]
Solve(A, B) ==
    IF Len(A) = 1
    THEN IF A[1][1].m = 0 THEN [singular |-> TRUE, x |-> <<>>]
         ELSE [singular |-> FALSE,
               x |-> <<Tab(Len(B[1]), LAMBDA j : Div(B[1][j], A[1][1]))>>]
    ELSE IF Gt(Abs(A[2][1]), Abs(A[1][1]))
    THEN SolvePivoted(A[2], A[1], B[2], B[1])
    ELSE SolvePivoted(A[1], A[2], B[1], B[2])

----------------------------------------------------------------------------
(* CultureGrowthEKF: the pure parts *)

HandleOutliers == TRUE

\* _is_positive_definite: only the symmetry is tested.
IsPositiveDefinite(A) == A = Transpose(A)

\* f: [OD * exp(r dt), r]
update_state_from_previous_state(state, dt) ==
    <<Mul(state[1], ExpF(Mul(state[2], dt))), state[2]>>

J_update_state_from_previous_state(state, dt) ==
    <<<<ExpF(Mul(state[2], dt)), Mul(Mul(state[1], ExpF(Mul(state[2], dt))), dt)>>,
      <<Zero, One>>>>

\* jump_var = max(1e-12, 0.25 * OD^2)
JumpVar(state) == MaxF(Lit(576461, -59), Mul(Lit(1, -2), Mul(state[1], state[1])))

\* The stored process noise is copied (Q.copy()) and, on a dilution, the jump
\* variance is added to the copy's [0,0].  [work: the copy the prediction uses,
\* stored: what self.process_noise_covariance holds afterwards]
PredictionNoise_InPlace(Q, state, recent_dilution) ==
    IF recent_dilution
    THEN [work   |-> [Q EXCEPT ![1][1] = Add(Q[1][1], JumpVar(state))],
          stored |-> [Q EXCEPT ![1][1] = Add(Q[1][1], JumpVar(state))]]
    ELSE [work |-> Q, stored |-> Q]

PredictionNoise(Q, state, recent_dilution) ==
    [work   |-> IF recent_dilution
                THEN [Q EXCEPT ![1][1] = Add(Q[1][1], JumpVar(state))] ELSE Q,
     stored |-> Q]

\* jacobian @ covariance @ jacobian.T + Q
Propagate(jacobian, covariance, Q) ==
    MatAdd(MatMul(MatMul(jacobian, covariance), Transpose(jacobian)), Q)

update_covariance_from_old_covariance(Q, state, covariance, dt, recent_dilution) ==
    Propagate(J_update_state_from_previous_state(state, dt), covariance,
              PredictionNoise(Q, state, recent_dilution).work)

\* h: OD, or exp(-(OD - 1)) for a "180" sensor
update_observations_from_state(state_prediction, angles) ==
    Tab(Len(angles), LAMBDA i :
        IF angles[i] # "180" THEN state_prediction[1]
        ELSE ExpF(Neg(Sub(state_prediction[1], One))))

J_update_observations_from_state(state_prediction, angles) ==
    Tab(Len(angles), LAMBDA i :
        <<IF angles[i] # "180" THEN One
          ELSE Neg(ExpF(Neg(Sub(state_prediction[1], One)))), Zero>>)

\* lambda R + (1 - lambda) r r^T with lambda = 0.97, the diagonal floored at 1e-10
NoiseEntry(i, j, v) == IF i = j THEN MaxF(v, Lit(900720, -53)) ELSE v

update_observation_noise_cov(R, residual_state) ==
    Tab(Len(R), LAMBDA i : Tab(Len(R), LAMBDA j :
        NoiseEntry(i, j, Add(Mul(Lit(1017119, -20), R[i][j]),
                             Mul(Sub(One, Lit(1017119, -20)),
                                 Mul(residual_state[i], residual_state[j]))))))

\* huber_threshold = outlier_std_threshold * (ems.value or 10_000)
HuberThreshold(outlier_std_threshold, ems_value) ==
    Mul(outlier_std_threshold, IF Truthy(ems_value) THEN ems_value ELSE F(10000))

\* The branch after the outlier test: a dilution zeroes the cross terms of the
\* predicted covariance, else an outlier doubles its OD variance.
AdjustPrediction_KeepCross(P, recent_dilution, currently_is_outlier) ==
    IF recent_dilution THEN [P EXCEPT ![1][2] = Zero]
    ELSE IF HandleOutliers /\ currently_is_outlier
    THEN [P EXCEPT ![1][1] = Mul(Two, P[1][1])]
    ELSE P

AdjustPrediction(P, recent_dilution, currently_is_outlier) ==
    IF recent_dilution THEN [P EXCEPT ![1][2] = Zero, ![2][1] = Zero]
    ELSE IF HandleOutliers /\ currently_is_outlier
    THEN [P EXCEPT ![1][1] = Mul(Two, P[1][1])]
    ELSE P

\* The gain after the outlier adjustment: K[0,0] scaled by
\* huber_threshold / max(|residual[0]|, 1e-20) and K[1:,0] = 0.
AdjustGain(K, currently_is_outlier, huber_threshold, residual_state) ==
    IF HandleOutliers /\ currently_is_outlier
    THEN [K EXCEPT ![1][1] = Mul(K[1][1],
                                 Div(huber_threshold,
                                     MaxF(Abs(residual_state[1]), Lit(773713, -86)))),
                   ![2][1] = Zero]
    ELSE K

\* Q[1,1] doubles when the normalised innovation squared exceeds 9, else
\* decays to the baseline: 0.05 * baseline + 0.95 * Q[1,1].
AdaptProcessNoise(Q, baseline, nis_high) ==
    IF nis_high
    THEN [Q EXCEPT ![2][2] = Mul(Q[2][2], Two)]
    ELSE [Q EXCEPT ![2][2] = Add(Mul(Sub(One, Lit(996147, -20)), baseline),
                                 Mul(Lit(996147, -20), Q[2][2]))]

\* __init__ past its assertions: the fields of the new object.  The process noise
\* array is kept by reference (qref); its [1,1] entry is read for the baseline.
EKF_init(initial_state, initial_covariance, qref, Q, observation_noise_covariance, angles, outlier_std_threshold) ==
    [state    |-> initial_state,
     cov      |-> initial_covariance,
     qref     |-> qref,
     R        |-> observation_noise_covariance,
     angles   |-> angles,
     thr      |-> outlier_std_threshold,
     baseline |-> Q[2][2],
     ems      |-> EMS_init(Lit(1022362, -20), Lit(838861, -20),
                           SqrtF(observation_noise_covariance[1][1]), Null),
     q_init   |-> Q,
     R_init   |-> observation_noise_covariance]

\* The assertions of __init__ (the shapes agree, the matrices are symmetric).
EKF_init_ok(initial_state, initial_covariance, Q, observation_noise_covariance) ==
    /\ Len(initial_state) = 2
    /\ Len(initial_covariance) = 2 /\ Len(initial_covariance[1]) = 2
    /\ Len(Q) = 2 /\ Len(Q[1]) = 2
    /\ IsPositiveDefinite(Q)
    /\ IsPositiveDefinite(initial_covariance)
    /\ IsPositiveDefinite(observation_noise_covariance)

\* update(obs, dt, recent_dilution) runs in the order of the source; each step
\* below extends the record c of the call's values so far.

\* The state estimates and the adapted process noise are stored; the call returns.
EKF_store(c) ==
    [raised |-> "none",
     self |-> [c.self EXCEPT !.state = VecAdd(c.state_prediction,
                                              MatVec(c.K, c.residual)),
                             !.cov = MatMul(MatSub(Eye2, MatMul(c.K, c.H)), c.P_pred),
                             !.R = c.R, !.ems = c.e.ems],
     Q |-> AdaptProcessNoise(c.Q, c.self.baseline,
                             IF c.S[1][1].m = 0 THEN c.residual[1].m # 0
                             ELSE Gt(Div(Mul(c.residual[1], c.residual[1]), c.S[1][1]),
                                     F(9))),
     outlier |-> c.outlier, huber |-> c.huber, residual |-> c.residual,
     P_pred0 |-> c.P_pred0, P_pred |-> c.P_pred, K_solved |-> c.K_solved, K |-> c.K]

\* The gain as solved, then adjusted for an outlier.
EKF_gain(c) ==
    IF c.sol.singular
    THEN [raised |-> "LinAlgError",
          self |-> [c.self EXCEPT !.ems = c.e.ems, !.R = c.R], Q |-> c.Q]
    ELSE EKF_store(c @@ [K_solved |-> Transpose(c.sol.x),
                         K |-> AdjustGain(Transpose(c.sol.x), c.outlier, c.huber,
                                          c.residual)])

\* kalman_gain_ = solve(residual_covariance.T, H @ covariance_prediction.T).T
EKF_solve(c) ==
    EKF_gain(c @@ [sol |-> Solve(Transpose(c.S), MatMul(c.H, Transpose(c.P_pred)))])

\* The spread tracker is fed; R is re-estimated unless outlier or dilution; then
\* residual_covariance = H @ covariance_prediction @ H.T + R.
EKF_innovation_covariance(c) ==
    EKF_solve(c @@ [S |-> MatAdd(MatMul(MatMul(c.H, c.P_pred), Transpose(c.H)), c.R)])

EKF_noise(c) ==
    IF c.e.raised
    THEN [raised |-> "ValueError", self |-> [c.self EXCEPT !.ems = c.e.ems], Q |-> c.Q]
    ELSE EKF_innovation_covariance(
             c @@ [R |-> IF (~c.outlier) /\ (~c.recent_dilution)
                         THEN update_observation_noise_cov(c.self.R, c.residual)
                         ELSE c.self.R])

\* The outlier test and the branch on it.
EKF_branch(c) ==
    EKF_noise(c @@ [P_pred |-> AdjustPrediction(c.P_pred0, c.recent_dilution, c.outlier),
                    e |-> EMS_update(c.self.ems, c.residual[1])])

EKF_outlier_test(c) ==
    EKF_branch(c @@ [outlier |-> Gt(Abs(c.residual[1]), c.huber)])

\* The innovation, the observation Jacobian, the threshold.
EKF_innovation(c) ==
    EKF_outlier_test(
        c @@ [residual |-> VecSub(c.obs, update_observations_from_state(
                                             c.state_prediction, c.self.angles)),
              H |-> J_update_observations_from_state(c.state_prediction, c.self.angles),
              huber |-> HuberThreshold(c.self.thr, c.self.ems.value)])

\* update(obs, dt, recent_dilution) on the object self whose process noise array
\* holds Q.  raised: "none", "ValueError" (the spread tracker's square root) or
\* "LinAlgError" (singular innovation covariance); self, Q: the object and the
\* array afterwards; the rest are the call's intermediate values.
EKF_update(self, Q, obs, dt, recent_dilution) ==
    EKF_innovation(
        [self |-> self, obs |-> obs, recent_dilution |-> recent_dilution,
         Q |-> PredictionNoise(Q, self.state, recent_dilution).stored,
         state_prediction |-> update_state_from_previous_state(self.state, dt),
         P_pred0 |-> update_covariance_from_old_covariance(Q, self.state, self.cov, dt,
                                                           recent_dilution)])

----------------------------------------------------------------------------
(* State *)

VARIABLES
    ems,        \* a free-standing ExponentialMovingStd, or Null before construction
    emsArgs,    \* the arguments of its constructor
    emsSeeded,  \* constructed with a seed and not cleared since
    emsCall,    \* its last call: [op, ret, raised]
    emsN,       \* update() calls since construction or the last clear()
    ekf,        \* the CultureGrowthEKF objects: instance -> fields, or Null
    heapQ,      \* the process noise arrays handed to constructors: array -> 2x2, or <<>>
    last,       \* the last CultureGrowthEKF.update call and its intermediate values
    nUpdates,   \* CultureGrowthEKF.update calls so far
    origin,     \* origin[j] = i: j was rebuilt from what i last returned (else 0)
    fed         \* the inputs fed to an instance of such a pair since the rebuild

emsVars == <<ems, emsArgs, emsSeeded, emsCall, emsN>>

ekfVars == <<ekf, heapQ, last, nUpdates, origin, fed>>

vars == <<ems, emsArgs, emsSeeded, emsCall, emsN, ekf, heapQ, last, nUpdates, origin, fed>>

----------------------------------------------------------------------------
(* The streaming statistics on their own *)

\* update() calls followed on one object between clear() calls.
MaxEmsUpdates == 3

\* 0, 0.975, 1 and, out of range, 1.5
AlphaSet == {Zero, Lit(1022362, -20), One, Lit(3, -1)}
\* not given, 0, 0.2, 1
EmaAlphaSet == {Null, Zero, Lit(838861, -22), One}
StdSeedSet == {Null, Lit(1, -1)}
MeanSeedSet == {Null, F(3)}
\* Readings: 1, and 3 with its two upper neighbours in the last place.
ValueSet == {F(1), F(3), Norm(3 * 2^(Prec - 2) + 1, 2 - Prec),
             Norm(3 * 2^(Prec - 2) + 2, 2 - Prec)}

EmsInit ==
    /\ ems = Null
    /\ emsArgs = Null
    /\ emsSeeded = FALSE
    /\ emsCall = [op |-> "none", ret |-> Null, raised |-> FALSE]
    /\ emsN = 0

\* ExponentialMovingStd(alpha, ema_alpha, initial_std_value, initial_mean_value);
\* the inner ExponentialMovingAverage raises ValueError on a decay outside [0,1].
EmsConstruct(alpha, ema_alpha, std0, mean0) ==
    /\ ems = Null
    /\ EMA_valid(EMS_ema_alpha(alpha, ema_alpha))
    /\ ems' = EMS_init(alpha, ema_alpha, std0, mean0)
    /\ emsArgs' = [alpha |-> alpha, ema_alpha |-> ema_alpha, std |-> std0, mean |-> mean0]
    /\ emsSeeded' = (std0 # Null \/ mean0 # Null)
    /\ emsCall' = [op |-> "init", ret |-> Null, raised |-> FALSE]
    /\ emsN' = 0
    /\ UNCHANGED ekfVars

EmsUpdate(x) ==
    /\ ems # Null
    /\ emsN < MaxEmsUpdates
    /\ \E r \in {EMS_update(ems, x)} :
           /\ ems' = r.ems
           /\ emsCall' = [op |-> "update", ret |-> r.ret, raised |-> r.raised]
    /\ emsN' = emsN + 1
    /\ UNCHANGED <<emsArgs, emsSeeded>>
    /\ UNCHANGED ekfVars

\* get_latest(): the value, or ValueError while there is none.
EmsGetLatest ==
    /\ ems # Null
    /\ emsCall' = [op |-> "get_latest", ret |-> ems.value, raised |-> ems.value = Null]
    /\ UNCHANGED <<ems, emsArgs, emsSeeded, emsN>>
    /\ UNCHANGED ekfVars

EmsClear ==
    /\ ems # Null
    /\ ems' = EMS_clear(ems)
    /\ emsCall' = [op |-> "clear", ret |-> Null, raised |-> FALSE]
    /\ emsN' = 0
    /\ emsSeeded' = FALSE
    /\ UNCHANGED emsArgs
    /\ UNCHANGED ekfVars

EmsNext ==
    \/ \E a \in AlphaSet, ea \in EmaAlphaSet, s \in StdSeedSet, mu \in MeanSeedSet :
           EmsConstruct(a, ea, s, mu)
    \/ \E x \in ValueSet : EmsUpdate(x)
    \/ EmsGetLatest
    \/ EmsClear

----------------------------------------------------------------------------
(* The filter *)

\* CultureGrowthEKF.update calls followed in one behaviour.
MaxUpdates == 3

Inst == {1, 2}
Arrays == {1, 2}

\* initial_state: OD 1, growth rate 0.125
StateSet == {<<One, Lit(1, -3)>>}
\* initial_covariance: symmetric, and one that fails the constructor's assertion
CovSet == {<<<<One, Lit(1, -1)>>, <<Lit(1, -1), One>>>>,
           <<<<One, Lit(1, -1)>>, <<Zero, One>>>>}
\* process_noise_covariance
QSet == {<<<<Lit(1, -4), Lit(1, -6)>>, <<Lit(1, -6), Lit(1, -5)>>>>}
\* observation_noise_covariance with the angles: one sensor; two sensors, the
\* second at 180 degrees
SensorSet == {[R |-> <<<<Lit(838861, -22)>>>>, angles |-> <<"90">>],
              [R |-> <<<<Lit(838861, -22), Zero>>, <<Zero, Lit(838861, -22)>>>>,
               angles |-> <<"90", "180">>]}
\* outlier_std_threshold
ThresholdSet == {F(5)}
\* Readings of the reference sensor (near the prediction, a spike) and of a second
\* sensor; dt; the dilution flag.
Obs1Set == {Lit(3, -1), F(8)}
Obs2Set == {Lit(5, -2)}
ObsSet(n) == IF n = 1 THEN {<<a>> : a \in Obs1Set}
             ELSE {<<a, b>> : a \in Obs1Set, b \in Obs2Set}
DtSet == {One}

NoCall == [inst |-> 0, raised |-> "none"]

EkfInit ==
    /\ ekf = [i \in Inst |-> Null]
    /\ heapQ = [a \in Arrays |-> <<>>]
    /\ last = NoCall
    /\ nUpdates = 0
    /\ origin = [i \in Inst |-> 0]
    /\ fed = [i \in Inst |-> <<>>]

FreeArray == CHOOSE a \in Arrays : heapQ[a] = <<>> /\ \A b \in Arrays : heapQ[b] = <<>> => a <= b

\* CultureGrowthEKF(x0, P0, Q, R, angles, thr) with Q a new array holding Qv.
\* Instances are numbered in the order of their creation.
Construct(i, x0, P0, Qv, sensors, thr) ==
    /\ ekf[i] = Null
    /\ \A k \in Inst : k < i => ekf[k] # Null
    /\ \E a \in Arrays : heapQ[a] = <<>>
    /\ EKF_init_ok(x0, P0, Qv, sensors.R)
    /\ ekf' = [ekf EXCEPT ![i] = EKF_init(x0, P0, FreeArray, Qv, sensors.R,
                                          sensors.angles, thr)]
    /\ heapQ' = [heapQ EXCEPT ![FreeArray] = Qv]
    /\ UNCHANGED <<last, nUpdates, origin, fed>>
    /\ UNCHANGED emsVars

\* The same, with Q the array object another instance was constructed from.
ConstructSharing(i, x0, P0, k, sensors, thr) ==
    /\ ekf[i] = Null
    /\ ekf[k] # Null
    /\ EKF_init_ok(x0, P0, heapQ[ekf[k].qref], sensors.R)
    /\ ekf' = [ekf EXCEPT ![i] = EKF_init(x0, P0, ekf[k].qref, heapQ[ekf[k].qref],
                                          sensors.R, sensors.angles, thr)]
    /\ UNCHANGED <<heapQ, last, nUpdates, origin, fed>>
    /\ UNCHANGED emsVars

\* A new estimator from the (state, covariance) instance k last returned, the same
\* angles and threshold, and the noise parameters: those k was constructed with
\* (noise = "initial"), or k's current ones (noise = "current"), in a new array.
Rebuild(k, j, noise) ==
    /\ ekf[k] # Null
    /\ ekf[j] = Null
    /\ \E a \in Arrays : heapQ[a] = <<>>
    /\ \E Qv \in {IF noise = "initial" THEN ekf[k].q_init ELSE heapQ[ekf[k].qref]},
          Rv \in {IF noise = "initial" THEN ekf[k].R_init ELSE ekf[k].R} :
           /\ EKF_init_ok(ekf[k].state, ekf[k].cov, Qv, Rv)
           /\ ekf' = [ekf EXCEPT ![j] = EKF_init(ekf[k].state, ekf[k].cov, FreeArray, Qv,
                                                 Rv, ekf[k].angles, ekf[k].thr)]
           /\ heapQ' = [heapQ EXCEPT ![FreeArray] = Qv]
    /\ origin' = [origin EXCEPT ![j] = k]
    /\ fed' = [fed EXCEPT ![j] = <<>>, ![k] = <<>>]
    /\ UNCHANGED <<last, nUpdates>>
    /\ UNCHANGED emsVars

Paired(i) == origin[i] # 0 \/ \E j \in Inst : origin[j] = i

\* ekf[i].update(obs, dt, recent_dilution)
Update(i, obs, dt, recent_dilution) ==
    /\ ekf[i] # Null
    /\ nUpdates < MaxUpdates
    /\ Len(obs) = Len(ekf[i].R)
    /\ \E r \in {EKF_update(ekf[i], heapQ[ekf[i].qref], obs, dt, recent_dilution)} :
           /\ ekf' = [ekf EXCEPT ![i] = r.self]
           /\ heapQ' = [heapQ EXCEPT ![ekf[i].qref] = r.Q]
           /\ last' = [r EXCEPT !.self = ekf[i]] @@
                      [inst |-> i, recent_dilution |-> recent_dilution]
    /\ nUpdates' = nUpdates + 1
    /\ fed' = IF Paired(i)
              THEN [fed EXCEPT ![i] = Append(@, <<obs, dt, recent_dilution>>)]
              ELSE fed
    /\ UNCHANGED origin
    /\ UNCHANGED emsVars

EkfNext ==
    \/ \E i \in Inst, x0 \in StateSet, P0 \in CovSet, Qv \in QSet,
         sensors \in SensorSet, thr \in ThresholdSet :
           Construct(i, x0, P0, Qv, sensors, thr)
    \/ \E i, k \in Inst, x0 \in StateSet, P0 \in CovSet,
         sensors \in SensorSet, thr \in ThresholdSet :
           ConstructSharing(i, x0, P0, k, sensors, thr)
    \/ \E k, j \in Inst, noise \in {"initial", "current"} : Rebuild(k, j, noise)
    \/ \E i \in Inst, n \in {1, 2}, dt \in DtSet, rd \in BOOLEAN :
         \E obs \in ObsSet(n) : Update(i, obs, dt, rd)

Init == EmsInit /\ EkfInit

Next == EkfNext

Spec == Init /\ [][Next]_vars

SpecEMS == Init /\ [][EmsNext]_vars

----------------------------------------------------------------------------
(* Claims on the streaming statistics (under SpecEMS) *)

InUnit(a) == Ge(a, Zero) /\ Le(a, One)

\* C5: an ema_alpha given in [0,1] is the decay of the inner mean smoother, whatever
\* alpha is; alpha is used only when ema_alpha is not given.
C5_EmaAlphaUsed ==
    (ems # Null) =>
        IF emsArgs.ema_alpha # Null
        THEN InUnit(emsArgs.ema_alpha) => ems.ema.alpha = emsArgs.ema_alpha
        ELSE ems.ema.alpha = emsArgs.alpha

\* C6: without seeds (and after clear()) the first update returns None and
\* get_latest raises until the second update; the second and every later update
\* returns a value, which get_latest then returns.
C6_WarmUp ==
    (ems # Null /\ ~emsSeeded /\ InUnit(ems.alpha) /\ InUnit(ems.ema.alpha)) =>
        /\ (emsCall.op = "update" /\ emsN = 1) => (emsCall.ret = Null /\ ~emsCall.raised)
        /\ (emsCall.op = "update" /\ emsN >= 2) =>
               (~emsCall.raised /\ emsCall.ret # Null /\ emsCall.ret = ems.value)
        /\ (emsCall.op = "get_latest" /\ emsN < 2) => emsCall.raised
        /\ (emsCall.op = "get_latest" /\ emsN >= 2) =>
               (~emsCall.raised /\ emsCall.ret # Null)

\* C8: with alpha and the inner mean's alpha in [0,1] the variance is >= 0 after
\* every update, so update never fails on the square root.
C8_VarianceNonNegative ==
    (ems # Null /\ InUnit(ems.alpha) /\ InUnit(ems.ema.alpha)) =>
        /\ ems.var = Null \/ ems.var.m >= 0
        /\ ~(emsCall.op = "update" /\ emsCall.raised)

----------------------------------------------------------------------------
(* Claims on the filter (under Spec) *)

\* The last update call returned (state, covariance).
Returned == last.inst # 0 /\ last.raised = "none"

\* C1: on an update with recent_dilution = True the outlier path is not taken:
\* P_pred[0,0] is not doubled, the gain is used as solved, and the off-diagonal
\* terms of P_pred are zero.
C1_DilutionSkipsOutlierPath ==
    (Returned /\ last.recent_dilution) =>
        /\ last.P_pred[1][1] = last.P_pred0[1][1]
        /\ last.K = last.K_solved
        /\ last.P_pred[1][2] = Zero
        /\ last.P_pred[2][1] = Zero

\* C2: an update without dilution whose reference residual exceeds the threshold
\* leaves the growth rate as it was, for any number of sensors.
C2_OutlierFreezesGrowthRate ==
    (Returned /\ ~last.recent_dilution /\ HandleOutliers /\ last.outlier) =>
        ekf[last.inst].state[2] = last.self.state[2]

\* C3: an estimator rebuilt from the (state, covariance) another one last returned,
\* with the same noise parameters, angles and threshold, returns the same (state,
\* covariance) as the original once both were fed the same inputs.
C3_RoundTrip ==
    \A i, j \in Inst :
        (origin[j] = i /\ ekf[i] # Null /\ ekf[j] # Null /\ fed[i] = fed[j]) =>
            /\ ekf[i].state = ekf[j].state
            /\ ekf[i].cov = ekf[j].cov

\* What instance j holds: its fields and its process noise.
View(j) == <<ekf[j], heapQ[ekf[j].qref]>>

Close(a, b) == Le(Mul(F(4), Abs(Sub(a, b))), MaxF(Abs(a), Abs(b)))

Det(P) == Sub(Mul(P[1][1], P[2][2]), Mul(P[1][2], P[2][1]))

\* C7: after every successful update the stored covariance is symmetric positive
\* semi-definite: P[0,1] = P[1,0] (here: up to a quarter of their magnitude, so that
\* rounding does not count), P[0,0] >= 0, P[1,1] >= 0, det P >= 0.
C7_CovarianceSymmetricPSD ==
    Returned =>
        /\ Close(ekf[last.inst].cov[1][2], ekf[last.inst].cov[2][1])
        /\ Ge(ekf[last.inst].cov[1][1], Zero)
        /\ Ge(ekf[last.inst].cov[2][2], Zero)
        /\ Ge(Det(ekf[last.inst].cov), Zero)

\* C9: of the stored process noise only Q[1,1] ever changes: Q[0,0], Q[0,1], Q[1,0]
\* keep their construction-time values, and the dilution inflation enters the
\* cycle's prediction without staying in Q.
C9_OnlyGrowthRateNoiseChanges ==
    /\ \A i \in Inst : ekf[i] # Null =>
           /\ heapQ[ekf[i].qref][1][1] = ekf[i].q_init[1][1]
           /\ heapQ[ekf[i].qref][1][2] = ekf[i].q_init[1][2]
           /\ heapQ[ekf[i].qref][2][1] = ekf[i].q_init[2][1]
    /\ (Returned /\ last.recent_dilution) =>
           Ge(last.P_pred0[1][1], JumpVar(last.self.state))

\* An update with dilution has returned and the instance's Q[1,1] has moved from
\* its construction-time value.
C9_Witness ==
    /\ Returned /\ last.recent_dilution
    /\ heapQ[ekf[last.inst].qref][2][2] # ekf[last.inst].q_init[2][2]
    /\ nUpdates >= 2

\* C10: every successful update with recent_dilution = True leaves the growth-rate
\* estimate unchanged, for any observations and any number of sensors.
C10_DilutionKeepsGrowthRate ==
    (Returned /\ last.recent_dilution) =>
        ekf[last.inst].state[2] = last.self.state[2]

\* A two-sensor update with dilution has returned, its residuals nonzero, and it
\* moved the OD estimate away from the prediction input.
C10_Witness ==
    /\ Returned /\ last.recent_dilution
    /\ Len(last.residual) = 2
    /\ last.residual[1] # Zero /\ last.residual[2] # Zero
    /\ ekf[last.inst].state[1] # last.self.state[1]
    /\ last.self.state[2] # Zero
=============================================================================
